---- MODULE Spec2Model ----
(***************************************************************************)
(* A model of core/services/indexer/clang_indexer.py: the ClangIndexer     *)
(* operation dispatcher, the directory orchestrator with its worker        *)
(* processes, the single-unit indexer (AST visitor) and the query engine,  *)
(* over a model of the sqlite store (committed tables, per-connection      *)
(* open transactions, one writer per store file).                          *)
(***************************************************************************)
EXTENDS Integers, Sequences, FiniteSets, Bags, TLC

\* ------------------------------------------------------------------ bounds
\* largest number of source files os.walk discovers under a project root
MaxFiles == 5
\* largest multiprocessing.cpu_count() of the host
MaxCpu == 2

\* ------------------------------------------------------- values and inputs
\* Python's None where a string is expected
None == "None"
\* Python's None where a file name is expected (slice padding)
NoFile == <<>>
\* project roots a request can name
Roots == {"r1", "r2"}
\* compiler argument strings a request can carry
CompilerArgs == {"-std=c++11"}
\* the file names os.walk yields under root r when it holds n source files
WalkDirectory(r, n) == [i \in 1..n |-> <<r, i>>]
\* the files named by index-single-file and by the two queries
RequestFiles == {<<"r1", 1>>, <<"r2", 1>>}

\* operation codes of ClangIndexer.op
OpIndexSingleFile == 0
OpIndexDirectory == 1
OpDropSingleFile == 2
OpDropAll == 3
OpGoToDefinition == 16
OpFindAllReferences == 17
RecognisedOps == {OpIndexSingleFile, OpIndexDirectory, OpDropSingleFile,
                  OpDropAll, OpGoToDefinition, OpFindAllReferences}
\* codes a caller can send that are not keys of ClangIndexer.op
UnknownOps == {4}

\* ---------------------------------------------------------------- slicing
\* izip_longest(*[iter(iterable)]*n, fillvalue=padvalue): consecutive chunks
\* of n elements, the last one padded; no iterator at all (n = 0) yields
\* nothing.
slice_it(iterable, n, padvalue) ==
    IF n = 0 THEN <<>>
    ELSE [j \in 1..((Len(iterable) + n - 1) \div n) |->
            [k \in 1..n |->
                IF (j - 1) * n + k <= Len(iterable)
                THEN iterable[(j - 1) * n + k]
                ELSE padvalue]]

\* --------------------------------------------------- the parser (external)
\* ChildVisitResult
CONTINUE == "continue"
RECURSE == "recurse"

\* The translation unit the parser produces for a source file, as the list
\* of its cursors in depth-first order.  parent = 0 is the unit's cursor.
\* file is where the cursor is located: "tu" the unit's primary file, "hdr"
\* an included file, None no file at all.  usr is the identity get_usr()
\* gives the cursor, ref the identity of cursor.referenced (None: no link).
\*   extern int printf(const char* fmt);          (from a header)
\*   int foo() { int x; return 1; }
\*   int main() { return foo() + foo(); }
\*   struct S; M()
Ast == <<
  [parent |-> 0, file |-> "hdr", kind |-> "Function", usr |-> "printf", ref |-> None, line |-> 9, column |-> 1],
  [parent |-> 1, file |-> "tu", kind |-> "FunctionParameter", usr |-> "fmt", ref |-> None, line |-> 9, column |-> 8],
  [parent |-> 0, file |-> "tu", kind |-> "Function", usr |-> "foo", ref |-> None, line |-> 1, column |-> 5],
  [parent |-> 3, file |-> "tu", kind |-> "Other", usr |-> "", ref |-> None, line |-> 1, column |-> 11],
  [parent |-> 4, file |-> "tu", kind |-> "LocalVariable", usr |-> "x", ref |-> None, line |-> 1, column |-> 17],
  [parent |-> 0, file |-> "tu", kind |-> "Function", usr |-> "main", ref |-> None, line |-> 2, column |-> 5],
  [parent |-> 6, file |-> "tu", kind |-> "Function", usr |-> "", ref |-> "foo", line |-> 2, column |-> 21],
  [parent |-> 7, file |-> "tu", kind |-> "Function", usr |-> "", ref |-> "foo", line |-> 2, column |-> 21],
  [parent |-> 6, file |-> "tu", kind |-> "Function", usr |-> "", ref |-> "foo", line |-> 2, column |-> 29],
  [parent |-> 0, file |-> None, kind |-> "MacroDefinition", usr |-> "__GNUC__", ref |-> None, line |-> 0, column |-> 0],
  [parent |-> 0, file |-> "tu", kind |-> "Struct", usr |-> "S", ref |-> None, line |-> 3, column |-> 8],
  [parent |-> 0, file |-> "tu", kind |-> "MacroInstantiation", usr |-> "", ref |-> "M", line |-> 4, column |-> 1]
>>

\* ast_node.location.file.name, for a unit whose spelling is fname
LocationFile(node, fname) ==
    IF node.file = "tu" THEN fname ELSE IF node.file = "hdr" THEN <<"hdr", 0>> ELSE NoFile

\* the children of cursor p (0: the unit's cursor), in source order
RECURSIVE ChildrenFrom(_, _)
ChildrenFrom(p, i) ==
    IF i > Len(Ast) THEN <<>>
    ELSE (IF Ast[i].parent = p THEN <<i>> ELSE <<>>) \o ChildrenFrom(p, i + 1)
Children == [p \in 0..Len(Ast) |-> ChildrenFrom(p, 1)]

\* source positions a query can name: the declaration of foo, its two
\* use-sites, a statement that is no symbol, and a place with no cursor
Positions == {<<1, 5>>, <<2, 21>>, <<2, 29>>, <<1, 11>>, <<7, 7>>}

\* the positions a go-to-definition request can name: a use-site of foo and
\* a place with no cursor
DefinitionPositions == {<<2, 29>>, <<7, 7>>}

\* parser.map_source_location_to_cursor: the cursors of the primary file at
\* the position (the parser picks one of them; none: no cursor)
CursorsAt(line, column) ==
    {i \in 1..Len(Ast) : Ast[i].file = "tu" /\ Ast[i].line = line /\ Ast[i].column = column}

\* ------------------------------------------------------ the store (sqlite)
\* the rows line 117 puts into symbol_type
SymbolTypes == {<<1, "function">>, <<2, "variable">>, <<3, "user_defined_type">>, <<4, "macro">>}

\* PRIMARY KEY(filename, usr, line, column) of table symbol
Key(row) == <<row[1], row[2], row[3], row[4]>>
HasKey(rows, key) == \E r \in BagToSet(rows) : Key(r) = key

\* a connection that is not open (self.db = None)
NoConnection == [open |-> FALSE, root |-> None, txn |-> FALSE, cat |-> {}, sym |-> EmptyBag]
\* sqlite3.connect(os.path.join(root, 'indexer.db')): no transaction yet
Connect(root) == [open |-> TRUE, root |-> root, txn |-> FALSE, cat |-> {}, sym |-> EmptyBag]

\* the four AST node classes of the visitor and of find-all-references
FunctionIds == {"Function", "Method"}
TypeIds == {"Class", "Struct", "Enum", "EnumValue", "Union", "Typedef"}
VariableIds == {"LocalVariable", "FunctionParameter", "Field"}
MacroIds == {"MacroDefinition", "MacroInstantiation"}
\* a visitor whose branches number the types in the order they are written
SymbolType_InBranchOrder(id) ==
    IF id \in FunctionIds THEN 1
    ELSE IF id \in TypeIds THEN 2
    ELSE IF id \in VariableIds THEN 3
    ELSE IF id \in MacroIds THEN 4
    ELSE 0

\* the type column the visitor stores for an AST node id (0: no row)
SymbolType(id) ==
    IF id \in FunctionIds THEN 1
    ELSE IF id \in TypeIds THEN 3
    ELSE IF id \in VariableIds THEN 2
    ELSE IF id \in MacroIds THEN 4
    ELSE 0

\* an INSERT into a table without its primary key
ExecuteInsert_NoPrimaryKey(conn, view, row) ==
    IF view.locked \/ ~view.tables
    THEN [conn |-> conn, exc |-> "OperationalError"]
    ELSE [conn |-> [conn EXCEPT !.txn = TRUE, !.sym = @ (+) SetToBag({row})], exc |-> None]

\* db.cursor().execute('INSERT INTO symbol VALUES (?, ?, ?, ?, ?)', row) on
\* connection conn.  view is what the connection finds in the store file:
\* tab the committed rows, tables whether the table exists, locked whether
\* another connection holds the write lock (an open write transaction).
\* The statement opens the connection's transaction; a refused lock or a
\* missing table is an OperationalError, a key collision an IntegrityError.
ExecuteInsert(conn, view, row) ==
    IF view.locked \/ ~view.tables
    THEN [conn |-> conn, exc |-> "OperationalError"]
    ELSE IF HasKey(view.tab, Key(row)) \/ HasKey(conn.sym, Key(row))
    THEN [conn |-> [conn EXCEPT !.txn = TRUE], exc |-> "IntegrityError"]
    ELSE [conn |-> [conn EXCEPT !.txn = TRUE, !.sym = @ (+) SetToBag({row})], exc |-> None]

\* ------------------------------------------------- the single-unit indexer
\* a visitor without the test of the cursor's file: it stores and recurses
\* into every cursor of the unit
visitor_NoOriginFilter(n, fname, conn, view) ==
    LET ast_node == Ast[n]
        id == ast_node.kind
        usr == IF ast_node.ref # None THEN ast_node.ref ELSE ast_node.usr
        type == SymbolType(id)
        r == IF type # 0
             THEN ExecuteInsert(conn, view, <<fname, usr, ast_node.line, ast_node.column, type>>)
             ELSE [conn |-> conn, exc |-> None]
    IN  IF r.exc \in {None, "IntegrityError"}
        THEN [conn |-> r.conn, ret |-> RECURSE]
        ELSE [conn |-> r.conn, ret |-> "raise"]

\* visitor(ast_node, ast_parent_node, parser) of __index_single_file, for
\* the unit whose spelling is fname; ret is the ChildVisitResult, or "raise"
\* when an exception other than IntegrityError leaves the visitor.
visitor(n, fname, conn, view) ==
    LET ast_node == Ast[n]
        file == LocationFile(ast_node, fname)
    IN  IF file # NoFile /\ file = fname
        THEN LET id == ast_node.kind
                 usr == IF ast_node.ref # None THEN ast_node.ref ELSE ast_node.usr
                 type == SymbolType(id)
                 r == IF type # 0
                      THEN ExecuteInsert(conn, view, <<fname, usr, ast_node.line, ast_node.column, type>>)
                      ELSE [conn |-> conn, exc |-> None]
             IN  IF r.exc \in {None, "IntegrityError"}
                 THEN [conn |-> r.conn, ret |-> RECURSE]
                 ELSE [conn |-> r.conn, ret |-> "raise"]
        ELSE [conn |-> conn, ret |-> CONTINUE]

\* parser.traverse(cursor, parser, visitor): depth-first, todo is the list
\* of cursors still to visit; the children of a cursor are visited when the
\* visitor answers RECURSE.  The walk ends at an exception of the visitor.
RECURSIVE traverse(_, _, _, _)
traverse(todo, fname, conn, view) ==
    IF todo = <<>> THEN [conn |-> conn, exc |-> None]
    ELSE LET v == visitor(Head(todo), fname, conn, view)
         IN  IF v.ret = "raise"
             THEN [conn |-> v.conn, exc |-> "OperationalError"]
             ELSE traverse((IF v.ret = RECURSE THEN Children[Head(todo)] ELSE <<>>) \o Tail(todo),
                           fname, v.conn, view)

\* an indexer that uses the unit without testing it
index_single_file_NoUnitRaises(filename, parsed, conn, view) ==
    IF parsed THEN traverse(Children[0], filename, conn, view)
    ELSE [conn |-> conn, exc |-> "AttributeError"]

\* __index_single_file: parsed is whether parser.parse returned a unit
index_single_file(filename, parsed, conn, view) ==
    IF parsed THEN traverse(Children[0], filename, conn, view)
    ELSE [conn |-> conn, exc |-> None]

\* the rows one traversal of file fname puts into an empty, unlocked store
FileRows ==
    [fname \in Roots \X (1..MaxFiles) |->
        BagToSet(index_single_file(fname, TRUE, Connect(None),
                                   [tab |-> EmptyBag, tables |-> TRUE, locked |-> FALSE]).conn.sym)]

\* ------------------------------------------------------------------- state
VARIABLES
    cpu_count,              \* self.cpu_count
    traverse_propagates,    \* self.parser: traverse lets an exception of the visitor through
    exists,                 \* per root: the store file <root>/indexer.db exists
    tables,                 \* per root: tables symbol_type and symbol exist
    symbol_type,            \* per root: committed rows of table symbol_type
    symbol,                 \* per root: committed rows of table symbol (a bag)
    db,                     \* self.db, the orchestrator's connection
    proj_root_directory,    \* self.proj_root_directory
    compiler_args,          \* self.compiler_args
    pc,                     \* where __run_on_directory stands ("idle": no request in progress)
    cpp_file_list,          \* the source files the running index-directory request found
    cpp_file_list_sliced,   \* its slices
    process_list,           \* its worker processes, process_list[i] working on slice i
    req,                    \* the request being handled, or the last one handled
    indexed_by_directory    \* request files that a worker of a finished index-directory traversed

vars == <<cpu_count, traverse_propagates, exists, tables, symbol_type, symbol, db, proj_root_directory,
          compiler_args, pc, cpp_file_list, cpp_file_list_sliced, process_list, req,
          indexed_by_directory>>

indexer == <<cpu_count, traverse_propagates>>
store == <<exists, tables, symbol_type, symbol>>
directory_run == <<pc, cpp_file_list, cpp_file_list_sliced, process_list, indexed_by_directory>>

\* the payload of a callback: the reference list or the definition location
NoPayload == [refs |-> {}, loc |-> <<>>]
\* a request at its dispatch: no callback yet, nothing parsed.  parsed are
\* the files the handler had parsed, unit is whether the parser returned a
\* unit, already_indexed the outcome of line 108, reindex whether the rows of
\* the file were in the store before an index-single-file request, file and
\* original the contents and the original filename of that request.
Request(op, root) ==
    [op |-> op, root |-> root, status |-> "running", callbacks |-> <<>>,
     parsed |-> {}, unit |-> FALSE, already_indexed |-> FALSE, reindex |-> FALSE,
     file |-> NoFile, original |-> NoFile, position |-> <<>>, cursor |-> 0]
\* a fresh indexer: no request handled yet
NoRequest == [Request(-1, None) EXCEPT !.status = "none"]
\* self.callback(id, payload)
callback(r, id, payload) == [r EXCEPT !.callbacks = Append(@, [id |-> id, payload |-> payload])]
\* the handler returns to its caller / an exception leaves the handler
Returned(r) == [r EXCEPT !.status = "returned"]
Raised(r) == [r EXCEPT !.status = "raised"]

\* whether a connection other than the orchestrator's / than worker w's holds
\* the write lock of the store under root
WorkerWrites(i, root) ==
    /\ process_list[i].status = "running"
    /\ process_list[i].root = root
    /\ process_list[i].conn.txn
LockedForOrchestrator(root) == \E i \in 1..Len(process_list) : WorkerWrites(i, root)
LockedForWorker(w, root) ==
    \/ db.open /\ db.root = root /\ db.txn
    \/ \E i \in 1..Len(process_list) : i # w /\ WorkerWrites(i, root)

\* what a connection finds in the store under root
View(root, locked) == [tab |-> symbol[root], tables |-> tables[root], locked |-> locked]

Init ==
    /\ cpu_count \in 1..MaxCpu
    /\ traverse_propagates \in BOOLEAN
    /\ exists \in [Roots -> BOOLEAN]
    /\ tables = exists
    /\ symbol_type = [r \in Roots |-> IF exists[r] THEN SymbolTypes ELSE {}]
    /\ symbol = [r \in Roots |-> EmptyBag]
    /\ db = NoConnection
    /\ proj_root_directory = None
    /\ compiler_args = None
    /\ pc = "idle"
    /\ cpp_file_list = <<>>
    /\ cpp_file_list_sliced = <<>>
    /\ process_list = <<>>
    /\ req = NoRequest
    /\ indexed_by_directory = {}

\* db.commit() on the orchestrator's connection
CommitSymbolType == [symbol_type EXCEPT ![db.root] = @ \cup db.cat]
CommitSymbol(conn) == [symbol EXCEPT ![conn.root] = @ (+) conn.sym]
Committed(conn) == [conn EXCEPT !.txn = FALSE, !.cat = {}, !.sym = EmptyBag]

\* --------------------------------------------------------- index-directory
\* an orchestrator that never finds the directory indexed
directory_already_indexed_Never(root) == FALSE

\* line 106-109: os.path.exists of the store file, before any connect
directory_already_indexed(root) == exists[root]

\* __run_on_directory up to line 129 (the whole handler when the directory
\* is already indexed): n is the number of source files os.walk finds.
run_on_directory(root, args) ==
    /\ pc = "idle"
    /\ proj_root_directory' = root
    /\ compiler_args' = args
    /\ exists' = [exists EXCEPT ![root] = TRUE]
    /\ IF directory_already_indexed(root)
       THEN /\ db' = Connect(root)
            /\ req' = Returned(callback([Request(OpIndexDirectory, root) EXCEPT !.already_indexed = TRUE],
                                        OpIndexDirectory, NoPayload))
            /\ UNCHANGED <<tables, symbol_type, symbol, directory_run>>
       ELSE \E n \in 0..MaxFiles :
            /\ tables' = [tables EXCEPT ![root] = TRUE]
            /\ db' = [Connect(root) EXCEPT !.txn = TRUE, !.cat = SymbolTypes]
            /\ cpp_file_list' = WalkDirectory(root, n)
            /\ cpp_file_list_sliced' = slice_it(cpp_file_list', Len(cpp_file_list') \div cpu_count, NoFile)
            /\ process_list' = <<>>
            /\ pc' = IF cpp_file_list_sliced' = <<>> THEN "join" ELSE "launch"
            /\ req' = Request(OpIndexDirectory, root)
            /\ UNCHANGED <<symbol_type, symbol, indexed_by_directory>>
    /\ UNCHANGED indexer

\* lines 131-135: one turn of the loop that starts a process per slice; the
\* process opens its own connection (line 254)
start_process ==
    /\ pc = "launch"
    /\ LET i == Len(process_list) + 1
       IN  /\ process_list' = Append(process_list,
                 [root |-> proj_root_directory, slice |-> cpp_file_list_sliced[i], idx |-> 1,
                  status |-> "running", conn |-> Connect(proj_root_directory), log |-> <<>>])
           /\ pc' = IF i = Len(cpp_file_list_sliced) THEN "join" ELSE "launch"
    /\ UNCHANGED <<indexer, store, db, proj_root_directory, compiler_args,
                   cpp_file_list, cpp_file_list_sliced, req, indexed_by_directory>>

\* an orchestrator that does not join its processes
all_joined_NoWait == TRUE

\* line 136-137: p.join() returns for every process of process_list
all_joined == \A i \in 1..Len(process_list) : process_list[i].status # "running"

\* the request files the workers parsed and traversed
TraversedFiles ==
    {f \in RequestFiles : \E i \in 1..Len(process_list) : \E k \in 1..Len(process_list[i].log) :
        /\ process_list[i].log[k].file = f
        /\ process_list[i].log[k].outcome \in {"indexed", "refused"}}

\* lines 136-148: join every process, commit, callback
finish_directory ==
    /\ pc = "join"
    /\ all_joined
    /\ symbol_type' = CommitSymbolType
    /\ symbol' = CommitSymbol(db)
    /\ db' = Committed(db)
    /\ req' = Returned(callback(req, OpIndexDirectory, NoPayload))
    /\ pc' = "idle"
    /\ process_list' = <<>>
    /\ cpp_file_list' = <<>>
    /\ cpp_file_list_sliced' = <<>>
    /\ indexed_by_directory' = indexed_by_directory \cup TraversedFiles
    /\ UNCHANGED <<indexer, exists, tables, proj_root_directory, compiler_args>>

\* run_on_directory_impl, one turn of its loop in worker process w: a
\* padding entry is skipped, a file is parsed (parsed: the parser returned a
\* unit) and traversed.  An OperationalError of an INSERT leaves the visitor
\* inside parser.traverse; when the parser lets it through the process dies.
worker_index_file(w, parsed) ==
    /\ process_list[w].status = "running"
    /\ process_list[w].idx <= Len(process_list[w].slice)
    /\ LET p == process_list[w]
           filename == p.slice[p.idx]
           r == index_single_file(filename, parsed, p.conn, View(p.root, LockedForWorker(w, p.root)))
           entry(o) == [file |-> filename, outcome |-> o]
           outcome == IF ~parsed THEN "no unit" ELSE IF r.exc # None THEN "refused" ELSE "indexed"
       IN  process_list' = [process_list EXCEPT ![w] =
             IF filename = NoFile
             THEN [p EXCEPT !.idx = @ + 1, !.log = Append(@, entry("padding"))]
             ELSE IF r.exc # None /\ traverse_propagates
             THEN [p EXCEPT !.status = "died", !.conn = Connect(p.root),
                            !.log = Append(@, entry(outcome))]
             ELSE [p EXCEPT !.idx = @ + 1, !.conn = r.conn,
                            !.log = Append(@, entry(outcome))]]
    /\ UNCHANGED <<indexer, store, db, proj_root_directory, compiler_args, pc,
                   cpp_file_list, cpp_file_list_sliced, req, indexed_by_directory>>

\* run_on_directory_impl returns and the process exits: its connection is
\* closed with whatever transaction it has open, which sqlite rolls back
worker_exit(w) ==
    /\ process_list[w].status = "running"
    /\ process_list[w].idx > Len(process_list[w].slice)
    /\ process_list' = [process_list EXCEPT ![w] =
            [process_list[w] EXCEPT !.status = "exited", !.conn = Connect(process_list[w].root)]]
    /\ UNCHANGED <<indexer, store, db, proj_root_directory, compiler_args, pc,
                   cpp_file_list, cpp_file_list_sliced, req, indexed_by_directory>>

\* ------------------------------------------------------- index-single-file
\* __run_on_single_file: the store is the one under self.proj_root_directory
\* (line 52); os.path.join raises on None.  parsed: the parser returned a unit.
run_on_single_file(proj_root, contents_filename, original_filename, args, parsed) ==
    /\ pc = "idle"
    /\ LET r0 == [Request(OpIndexSingleFile, proj_root) EXCEPT !.file = contents_filename,
                                                                !.original = original_filename]
           r1 == [r0 EXCEPT !.parsed = {contents_filename}, !.unit = parsed,
                            !.reindex = (FileRows[contents_filename] \subseteq BagToSet(symbol[proj_root_directory]))]
       IN  IF proj_root_directory = None
           THEN /\ req' = Raised(r0)
                /\ UNCHANGED <<store, db>>
           ELSE LET root == proj_root_directory
                    r == index_single_file(contents_filename, parsed, Connect(root),
                                           View(root, LockedForOrchestrator(root)))
                IN  /\ exists' = [exists EXCEPT ![root] = TRUE]
                    /\ UNCHANGED <<tables, symbol_type>>
                    /\ IF contents_filename # original_filename
                       THEN /\ db' = Connect(root)
                            /\ symbol' = symbol
                            /\ req' = Returned(callback(r0, OpIndexSingleFile, NoPayload))
                       ELSE IF r.exc # None /\ traverse_propagates
                       THEN /\ db' = r.conn
                            /\ symbol' = symbol
                            /\ req' = Raised(r1)
                       ELSE /\ db' = Committed(r.conn)
                            /\ symbol' = CommitSymbol(r.conn)
                            /\ req' = Returned(callback(r1, OpIndexSingleFile, NoPayload))
    /\ UNCHANGED <<indexer, proj_root_directory, compiler_args, directory_run>>

\* ------------------------------------------------------------------- drops
\* __drop_single_file and __drop_all: the callback, nothing else
drop_single_file ==
    /\ pc = "idle"
    /\ req' = Returned(callback(Request(OpDropSingleFile, None), OpDropSingleFile, NoPayload))
    /\ UNCHANGED <<indexer, store, db, proj_root_directory, compiler_args, directory_run>>

\* a __drop_all that empties the symbol table of the connected store
drop_all_DeletesRows ==
    /\ pc = "idle"
    /\ req' = Returned(callback(Request(OpDropAll, None), OpDropAll, NoPayload))
    /\ symbol' = [r \in Roots |-> IF db.open /\ r = db.root THEN EmptyBag ELSE symbol[r]]
    /\ UNCHANGED <<indexer, exists, tables, symbol_type, db, proj_root_directory, compiler_args,
                   directory_run>>

drop_all ==
    /\ pc = "idle"
    /\ req' = Returned(callback(Request(OpDropAll, None), OpDropAll, NoPayload))
    /\ UNCHANGED <<indexer, store, db, proj_root_directory, compiler_args, directory_run>>

\* an __unknown_op that falls through to the callback the other handlers end with
unknown_op_Callback(id) ==
    /\ pc = "idle"
    /\ req' = Returned(callback(Request(id, None), id, NoPayload))
    /\ UNCHANGED <<indexer, store, db, proj_root_directory, compiler_args, directory_run>>

\* __unknown_op: a log line
unknown_op(id) ==
    /\ pc = "idle"
    /\ req' = Returned(Request(id, None))
    /\ UNCHANGED <<indexer, store, db, proj_root_directory, compiler_args, directory_run>>

\* ----------------------------------------------------------------- queries
\* the identity the visitor and find-all-references give a cursor
CursorUsr(c) == IF Ast[c].ref # None THEN Ast[c].ref ELSE Ast[c].usr

\* parser.get_definition: the location of the declaration the cursor at the
\* position stands for, <<>> when there is none
DefinitionLocation(file, c) ==
    LET defs == {d \in 1..Len(Ast) : Ast[d].file = "tu" /\ Ast[d].ref = None /\ Ast[d].usr = CursorUsr(c)}
    IN  IF defs = {} THEN <<>>
        ELSE LET d == CHOOSE x \in defs : TRUE IN <<file, Ast[d].line, Ast[d].column>>

\* the cursors the parser can map a position to (0: none, also when there
\* is no unit)
MappedCursors(position, parsed) ==
    IF parsed /\ CursorsAt(position[1], position[2]) # {}
    THEN CursorsAt(position[1], position[2]) ELSE {0}

\* a __go_to_definition that takes the project root from the file it is
\* asked about and keeps it on the indexer
go_to_definition_KeepsRoot(file, position, parsed, c) ==
    /\ pc = "idle"
    /\ c \in MappedCursors(position, parsed)
    /\ LET r0 == [Request(OpGoToDefinition, None) EXCEPT !.file = file, !.position = position,
                                                        !.parsed = {file}, !.unit = parsed, !.cursor = c]
           location == IF c = 0 THEN <<>> ELSE DefinitionLocation(file, c)
       IN  req' = Returned(callback(r0, OpGoToDefinition, [NoPayload EXCEPT !.loc = location]))
    /\ proj_root_directory' = file[1]
    /\ UNCHANGED <<indexer, store, db, compiler_args, directory_run>>

\* __go_to_definition: parsed is whether the parser returned a unit, c the
\* cursor it maps the position to (0: none)
go_to_definition(file, position, parsed, c) ==
    /\ pc = "idle"
    /\ c \in MappedCursors(position, parsed)
    /\ LET r0 == [Request(OpGoToDefinition, None) EXCEPT !.file = file, !.position = position,
                                                        !.parsed = {file}, !.unit = parsed, !.cursor = c]
           location == IF c = 0 THEN <<>> ELSE DefinitionLocation(file, c)
       IN  req' = Returned(callback(r0, OpGoToDefinition, [NoPayload EXCEPT !.loc = location]))
    /\ UNCHANGED <<indexer, store, db, proj_root_directory, compiler_args, directory_run>>

\* the AST node ids for which find-all-references runs its SELECT
QueriedIds == FunctionIds \cup TypeIds \cup VariableIds \cup MacroIds

\* "SELECT * FROM symbol WHERE usr=?" on self.db, as (row[0], row[1], row[2], row[3])
SelectByUsr(conn, usr) ==
    {Key(row) : row \in {x \in BagToSet(symbol[conn.root] (+) conn.sym) : x[2] = usr}}

\* a __find_all_references that takes its store cursor before it looks at
\* the unit and the cursor the parser returned
find_all_references_CursorFirst(file, position, parsed, c) ==
    /\ pc = "idle"
    /\ c \in MappedCursors(position, parsed)
    /\ LET r0 == [Request(OpFindAllReferences, None) EXCEPT !.file = file, !.position = position,
                                                           !.parsed = {file}, !.unit = parsed, !.cursor = c]
       IN  IF ~db.open \/ ~tables[db.root]
           THEN req' = Raised(r0)
           ELSE IF c # 0 /\ Ast[c].kind \in QueriedIds
           THEN req' = Returned(callback(r0, OpFindAllReferences,
                                         [NoPayload EXCEPT !.refs = SelectByUsr(db, CursorUsr(c))]))
           ELSE req' = Returned(callback(r0, OpFindAllReferences, NoPayload))
    /\ UNCHANGED <<indexer, store, db, proj_root_directory, compiler_args, directory_run>>

\* __find_all_references: parsed is whether the parser returned a unit, c
\* the cursor it maps the position to (0: none).  self.db is None on an
\* indexer that has handled no indexing request: cursor() raises.
find_all_references(file, position, parsed, c) ==
    /\ pc = "idle"
    /\ c \in MappedCursors(position, parsed)
    /\ LET r0 == [Request(OpFindAllReferences, None) EXCEPT !.file = file, !.position = position,
                                                           !.parsed = {file}, !.unit = parsed, !.cursor = c]
       IN  IF c # 0 /\ Ast[c].kind \in QueriedIds
           THEN IF ~db.open \/ ~tables[db.root]
                THEN req' = Raised(r0)
                ELSE req' = Returned(callback(r0, OpFindAllReferences,
                                              [NoPayload EXCEPT !.refs = SelectByUsr(db, CursorUsr(c))]))
           ELSE req' = Returned(callback(r0, OpFindAllReferences, NoPayload))
    /\ UNCHANGED <<indexer, store, db, proj_root_directory, compiler_args, directory_run>>

\* ---------------------------------------------------------- specification
\* ClangIndexer.__call__: the handler of the operation code
Dispatch ==
    \/ \E root \in Roots, args \in CompilerArgs : run_on_directory(root, args)
    \/ \E root \in Roots, c \in RequestFiles, o \in RequestFiles, args \in CompilerArgs :
          \E parsed \in (IF c = o THEN BOOLEAN ELSE {FALSE}) :
             run_on_single_file(root, c, o, args, parsed)
    \/ drop_single_file
    \/ drop_all
    \/ \E f \in RequestFiles, p \in DefinitionPositions, parsed \in BOOLEAN :
          \E c \in MappedCursors(p, parsed) : go_to_definition(f, p, parsed, c)
    \/ \E f \in RequestFiles, p \in Positions, parsed \in BOOLEAN :
          \E c \in MappedCursors(p, parsed) : find_all_references(f, p, parsed, c)
    \/ \E id \in UnknownOps : unknown_op(id)

Workers ==
    \/ start_process
    \/ \E w \in 1..Len(process_list), parsed \in BOOLEAN : worker_index_file(w, parsed)
    \/ \E w \in 1..Len(process_list) : worker_exit(w)
    \/ finish_directory

Next == Dispatch \/ Workers

Spec == Init /\ [][Next]_vars

\* ================================================================== claims
\* the rows of a file's traversal are in the committed symbol table of root
RowsCommitted(f, root) == FileRows[f] \subseteq BagToSet(symbol[root])
\* a worker parsed the file of its log entry and ran the visitor over it
Traversed(entry) == entry.outcome \in {"indexed", "refused"}
Worker(i) == process_list[i]
WorkerIds == 1..Len(process_list)

\* C1: within a worker the files are processed in slice order, and the rows
\* of file k are committed before the worker starts on file k+1.
C1_PerFileCommit ==
    \A i \in WorkerIds : \A k \in 1..Len(Worker(i).log) :
        /\ Worker(i).log[k].file = Worker(i).slice[k]
        /\ (Worker(i).status = "running" /\ Worker(i).idx = k + 1 /\ k + 1 <= Len(Worker(i).slice)
            /\ Traversed(Worker(i).log[k]))
           => RowsCommitted(Worker(i).log[k].file, Worker(i).root)

\* C2: when the orchestrator passes the join point, the rows of every file a
\* worker ran its INSERTs for are in the store a new connection sees.
C2_WorkersCommitBeforeJoin ==
    (pc = "join" /\ \A i \in WorkerIds : Worker(i).status # "running")
    => \A i \in WorkerIds : \A k \in 1..Len(Worker(i).log) :
          Traversed(Worker(i).log[k]) => RowsCommitted(Worker(i).log[k].file, Worker(i).root)

\* the entries of all slices, in order, without the padding
RECURSIVE Flatten(_)
Flatten(slices) ==
    IF slices = <<>> THEN <<>>
    ELSE SelectSeq(Head(slices), LAMBDA f : f # NoFile) \o Flatten(Tail(slices))

\* C3: the non-padding entries of the slices are exactly the discovered file
\* list: nothing dropped, nothing twice.
C3_PartitionComplete ==
    pc # "idle" => Flatten(cpp_file_list_sliced) = cpp_file_list

\* C4: the file list is cut into exactly cpu_count slices and never more
\* than cpu_count processes are started.
C4_OneSlicePerProcessingUnit ==
    pc # "idle" => /\ Len(cpp_file_list_sliced) = cpu_count
                   /\ Len(process_list) <= cpu_count

\* the use-sites of foo and the references find-all-references owes them
UseSites == {<<2, 21>>, <<2, 29>>}
FooReferences(f) == {<<f, "foo", 1, 5>>, <<f, "foo", 2, 21>>, <<f, "foo", 2, 29>>}

\* C5: find-all-references at either use-site of foo, in a file that
\* index-directory has indexed, returns rows of foo's identity only, among
\* them the declaration and both use-sites.
C5_ReferenceUnification ==
    (/\ req.op = OpFindAllReferences
     /\ req.status # "running"
     /\ req.file \in indexed_by_directory
     /\ req.position \in UseSites
     /\ req.cursor # 0)
    => /\ req.status = "returned"
       /\ Len(req.callbacks) = 1
       /\ FooReferences(req.file) \subseteq req.callbacks[1].payload.refs
       /\ \A row \in req.callbacks[1].payload.refs : row[2] = "foo"

\* C6: an index-directory request on a root whose store file exists parses
\* nothing, starts no process, creates no table, inserts no row and leaves
\* the store as it was.
C6_DirectoryShortCircuit ==
    [][(pc = "idle" /\ req'.op = OpIndexDirectory /\ exists[req'.root])
       => /\ UNCHANGED <<exists, tables, symbol_type, symbol>>
          /\ pc' = "idle"
          /\ process_list' = <<>>
          /\ req'.parsed = {}
          /\ ~db'.txn /\ db'.cat = {} /\ db'.sym = EmptyBag
          /\ req'.status = "returned"]_vars

\* a second index-directory on a root whose store holds rows has returned
C6_Witness ==
    /\ req.op = OpIndexDirectory
    /\ req.status = "returned"
    /\ req.already_indexed
    /\ symbol[req.root] # EmptyBag
    /\ req.root \in {f[1] : f \in indexed_by_directory}

\* C7: every recognised operation invokes the callback exactly once, with
\* its operation code, from every state.
C7_CallbackExactlyOnce ==
    (req.op \in RecognisedOps /\ req.status # "running")
    => /\ req.status = "returned"
       /\ Len(req.callbacks) = 1
       /\ req.callbacks[1].id = req.op

\* every row of the table is there once and has its key to itself
PrimaryKeyHolds(rows) ==
    \A r \in BagToSet(rows) :
        /\ CopiesIn(r, rows) = 1
        /\ \A q \in BagToSet(rows) : Key(q) = Key(r) => q = r

\* C8: an index-single-file request whose file parses returns, leaves every
\* key of the symbol table with one row, and adds exactly the rows of the
\* file that were missing (none when the file was indexed before): an INSERT
\* of an existing key neither raises nor ends the traversal.
C8_IdempotentInsert ==
    [][(pc = "idle" /\ req'.op = OpIndexSingleFile /\ req'.unit)
       => /\ req'.status = "returned"
          /\ PrimaryKeyHolds(symbol'[proj_root_directory])
          /\ BagToSet(symbol'[proj_root_directory])
               = BagToSet(symbol[proj_root_directory]) \cup FileRows[req'.file]
          /\ \A r \in Roots \ {proj_root_directory} : symbol'[r] = symbol[r]]_vars

\* a file whose rows were all in the store has been indexed again
C8_Witness ==
    /\ req.op = OpIndexSingleFile
    /\ req.status = "returned"
    /\ req.unit
    /\ req.reindex
    /\ RowsCommitted(req.file, proj_root_directory)
    /\ PrimaryKeyHolds(symbol[proj_root_directory])

\* C9: the final commit and the callback of index-directory happen only
\* when every slice has its process and none of the processes is running.
C9_JoinBeforeFinalCommit ==
    [][(pc # "idle" /\ (symbol_type' # symbol_type \/ symbol' # symbol \/ db'.txn # db.txn
                        \/ req'.callbacks # req.callbacks \/ pc' = "idle"))
       => /\ Len(process_list) = Len(cpp_file_list_sliced)
          /\ \A i \in WorkerIds : Worker(i).status # "running"]_vars

\* an index-directory request whose workers traversed a file has committed
\* the catalog and called back
C9_Witness ==
    /\ pc = "idle"
    /\ req.op = OpIndexDirectory
    /\ req.status = "returned"
    /\ ~req.already_indexed
    /\ Len(req.callbacks) = 1
    /\ <<req.root, 1>> \in indexed_by_directory
    /\ symbol_type[req.root] = SymbolTypes

C11_UnknownOpNoEffect ==
    [][(pc = "idle" /\ req'.op \notin RecognisedOps)
       => /\ UNCHANGED <<exists, tables, symbol_type, symbol>>
          /\ UNCHANGED <<db, proj_root_directory, compiler_args>>
          /\ UNCHANGED <<indexer, directory_run>>
          /\ req'.callbacks = <<>>
          /\ req'.status = "returned"]_vars

\* an unknown code was handled by an indexer that holds a connection to a
\* store with symbol rows
C11_Witness ==
    /\ req.op \in UnknownOps
    /\ req.status = "returned"
    /\ req.callbacks = <<>>
    /\ db.open
    /\ proj_root_directory # None
    /\ symbol[proj_root_directory] # EmptyBag

\* C12: a find-all-references request for which the parser gave no unit or
\* mapped the position to no cursor has returned with one callback that
\* carries the empty reference list; a go-to-definition request has returned
\* with one callback, which carries no location when nothing was resolved.
\* Neither ends with an exception, in any state they are dispatched from.
C12_EmptyResultSafety ==
    /\ (req.op = OpFindAllReferences /\ (~req.unit \/ req.cursor = 0))
       => /\ req.status = "returned"
          /\ Len(req.callbacks) = 1
          /\ req.callbacks[1] = [id |-> OpFindAllReferences, payload |-> NoPayload]
    /\ req.op = OpGoToDefinition
       => /\ req.status = "returned"
          /\ Len(req.callbacks) = 1
          /\ req.callbacks[1].id = OpGoToDefinition
          /\ (~req.unit \/ req.cursor = 0) => req.callbacks[1].payload = NoPayload

\* find-all-references found no unit on an indexer that has no connection
C12_Witness ==
    /\ req.op = OpFindAllReferences
    /\ ~req.unit
    /\ req.status = "returned"
    /\ req.callbacks[1].payload.refs = {}
    /\ ~db.open

\* go-to-definition at a position that maps to no cursor, after indexing
C12_WitnessDefinition ==
    /\ req.op = OpGoToDefinition
    /\ req.unit
    /\ req.cursor = 0
    /\ req.status = "returned"
    /\ req.callbacks[1].payload.loc = <<>>
    /\ db.open

\* the cursor and all the cursors above it are located in the primary file
RECURSIVE OriginChain(_)
OriginChain(i) == i = 0 \/ (Ast[i].file = "tu" /\ OriginChain(Ast[i].parent))

\* the row a cursor of the unit of file f stands for
NodeRow(f, i) ==
    <<f, IF Ast[i].ref # None THEN Ast[i].ref ELSE Ast[i].usr, Ast[i].line, Ast[i].column,
      SymbolType(Ast[i].kind)>>

\* the cursors of a unit that are located in another file or in none, and
\* the cursors below them
Foreign == {i \in 1..Len(Ast) : ~OriginChain(i)}

\* C13: every row a step adds to a symbol table belongs to the unit being
\* indexed: its filename is the unit's primary file and it is the row of a
\* cursor located in that file whose ancestors are all located there too
\* (nothing below a cursor of another file or of no file is visited); and
\* an index-single-file request that returns with a unit has the row of
\* every such cursor in the store, the siblings that come after a skipped
\* cursor included.
C13_OriginFilter ==
    [][/\ \A r \in Roots : \A row \in BagToSet(symbol'[r]) \ BagToSet(symbol[r]) :
            /\ req'.op = OpIndexSingleFile /\ req'.unit
            /\ row[1] = req'.file
            /\ \E i \in 1..Len(Ast) :
                  /\ LocationFile(Ast[i], req'.file) = req'.file
                  /\ OriginChain(i)
                  /\ row = NodeRow(req'.file, i)
            /\ \A i \in Foreign : row # NodeRow(req'.file, i)
       /\ (pc = "idle" /\ req'.op = OpIndexSingleFile /\ req'.unit /\ req'.status = "returned")
          => \A i \in 1..Len(Ast) :
                (OriginChain(i) /\ SymbolType(Ast[i].kind) # 0)
                => NodeRow(req'.file, i) \in BagToSet(symbol'[proj_root_directory])]_vars

\* a unit was indexed: the rows of foo, S and M, which come after the
\* header's printf and the built-in macro, are stored; the parameter below
\* printf, although located in the primary file, and the macro are not
C13_Witness ==
    /\ req.op = OpIndexSingleFile
    /\ req.unit
    /\ req.status = "returned"
    /\ Ast[1].file = "hdr" /\ Ast[2].parent = 1 /\ Ast[2].file = "tu" /\ Ast[10].file = None
    /\ {NodeRow(req.file, 3), NodeRow(req.file, 11), NodeRow(req.file, 12)}
          \subseteq BagToSet(symbol[proj_root_directory])
    /\ \A r \in Roots : \A i \in {1, 2, 10} : NodeRow(req.file, i) \notin BagToSet(symbol[r])

\* C14: an index-single-file request for project root R works on the store
\* under R: it ends without an exception, with the indexer's connection on
\* R/indexer.db, and leaves the store file and the symbol rows of every
\* other root as they were, whatever request was handled before it and
\* also when none was.
C14_SingleFileUsesItsRoot ==
    [][(pc = "idle" /\ req'.op = OpIndexSingleFile)
       => /\ req'.status = "returned"
          /\ db'.open /\ db'.root = req'.root
          /\ \A r \in Roots \ {req'.root} :
                exists'[r] = exists[r] /\ symbol'[r] = symbol[r]]_vars

\* C15: no step of the indexer, whatever operation it belongs to, removes
\* or alters a committed symbol row: every row of every symbol table is in
\* the table after the step with at least as many copies, so the committed
\* rows only grow.
C15_SymbolRowsOnlyAdded ==
    [][\A r \in Roots : \A row \in BagToSet(symbol[r]) :
          /\ row \in BagToSet(symbol'[r])
          /\ CopiesIn(row, symbol'[r]) >= CopiesIn(row, symbol[r])]_vars

\* drop-all was handled by an indexer connected to a store with symbol rows
C15_Witness ==
    /\ req.op = OpDropAll
    /\ req.status = "returned"
    /\ db.open
    /\ symbol[db.root] # EmptyBag
    /\ RowsCommitted(<<"r1", 1>>, db.root)

\* C16: a step that handles go-to-definition or find-all-references leaves
\* the store files, the tables, the catalog rows and the symbol rows of
\* every root, the indexer's project root and its compiler arguments as
\* they were.
C16_QueriesReadOnly ==
    [][(pc = "idle" /\ req'.op \in {OpGoToDefinition, OpFindAllReferences})
       => /\ UNCHANGED <<exists, tables, symbol_type, symbol>>
          /\ UNCHANGED <<proj_root_directory, compiler_args>>]_vars

\* find-all-references ran its lookup on a populated store and reported rows
C16_Witness ==
    /\ req.op = OpFindAllReferences
    /\ req.status = "returned"
    /\ req.cursor # 0
    /\ req.callbacks[1].payload.refs # {}
    /\ symbol[db.root] # EmptyBag
    /\ proj_root_directory # None
    /\ compiler_args # None

\* the AST node ids, "Other" standing for every id that is no symbol
AstNodeIds ==
    {"Function", "Method", "LocalVariable", "FunctionParameter", "Field", "Class", "Struct",
     "Enum", "EnumValue", "Union", "Typedef", "MacroDefinition", "MacroInstantiation", "Other"}

\* the type each AST node id is to be stored with (0: not stored)
Bucket ==
    [id \in AstNodeIds |->
        IF id \in {"Function", "Method"} THEN 1
        ELSE IF id \in {"LocalVariable", "FunctionParameter", "Field"} THEN 2
        ELSE IF id \in {"Class", "Struct", "Enum", "EnumValue", "Union", "Typedef"} THEN 3
        ELSE IF id \in {"MacroDefinition", "MacroInstantiation"} THEN 4
        ELSE 0]

\* C17: the visitor stores function and method cursors with type 1, local
\* variables, parameters and fields with 2, classes, structs, enums, enum
\* values, unions and typedefs with 3, macro definitions and instantiations
\* with 4 and nothing else, so every stored row has a catalogued type in
\* 1..4 that is the bucket of a cursor at its position; a cursor of another
\* kind leaves no row while the cursors below it are stored; and
\* find-all-references runs its lookup by identity exactly for the stored
\* kinds and reports the empty list for a cursor of any other kind.
C17_KindBucketing ==
    /\ \A id \in AstNodeIds :
          /\ SymbolType(id) = Bucket[id]
          /\ id \in QueriedIds <=> Bucket[id] # 0
    /\ \A r \in Roots : \A row \in BagToSet(symbol[r]) :
          /\ row[5] \in 1..4
          /\ \E t \in SymbolTypes : t[1] = row[5]
          /\ \E i \in 1..Len(Ast) :
                /\ Key(row) = Key(NodeRow(row[1], i))
                /\ row[5] = Bucket[Ast[i].kind]
    /\ (req.op = OpIndexSingleFile /\ req.unit /\ req.status = "returned")
       => \A i \in 1..Len(Ast) :
             (OriginChain(i) /\ Bucket[Ast[i].kind] = 0)
             => /\ \A row \in BagToSet(symbol[proj_root_directory]) :
                      Key(row) # Key(NodeRow(req.file, i))
                /\ \A j \in 1..Len(Ast) :
                      (Ast[j].parent = i /\ Ast[j].file = "tu" /\ Bucket[Ast[j].kind] # 0)
                      => \E row \in BagToSet(symbol[proj_root_directory]) :
                            /\ Key(row) = Key(NodeRow(req.file, j))
                            /\ row[5] = Bucket[Ast[j].kind]
    /\ (req.op = OpFindAllReferences /\ req.cursor # 0)
       => IF Bucket[Ast[req.cursor].kind] = 0
          THEN /\ req.status = "returned"
               /\ req.callbacks[1].payload.refs = {}
          ELSE \/ /\ req.status = "raised"
                  /\ ~db.open
               \/ /\ req.status = "returned"
                  /\ req.callbacks[1].payload.refs
                       = {Key(row) : row \in {x \in BagToSet(symbol[db.root]) :
                                                 x[2] = CursorUsr(req.cursor)}}

\* the store holds rows of all four types, the local variable below a
\* statement among them and no row for the statement, and
\* find-all-references on the statement returned the empty list
C17_Witness ==
    /\ req.op = OpFindAllReferences
    /\ req.cursor = 4
    /\ Bucket[Ast[4].kind] = 0
    /\ req.status = "returned"
    /\ req.callbacks[1].payload.refs = {}
    /\ db.open
    /\ {row[5] : row \in BagToSet(symbol[db.root])} = 1..4
    /\ \E row \in BagToSet(symbol[db.root]) : row[2] = "x" /\ row[5] = 2
    /\ \A row \in BagToSet(symbol[db.root]) : <<row[3], row[4]>> # <<1, 11>>

\* C18: while a worker process of index-directory is running, the four
\* catalog rows are committed in the store it writes to and the
\* orchestrator's connection has no open write transaction, and no INSERT
\* of a worker has been refused for a lock on the store.
C18_CatalogCommittedBeforeWorkers ==
    \A i \in WorkerIds :
        /\ Worker(i).status = "running"
           => /\ ~db.txn
              /\ symbol_type[Worker(i).root] = SymbolTypes
        /\ \A k \in 1..Len(Worker(i).log) : Worker(i).log[k].outcome # "refused"

\* C19: an index-single-file request ends with one callback that carries its
\* operation code.  When the contents path is the original path the file
\* has been parsed and, at the callback, the rows of its unit are committed
\* and the connection has no open transaction; when the two paths differ
\* nothing was parsed and no symbol or catalog row was inserted or committed.
C19_SingleFilePathGate ==
    [][(pc = "idle" /\ req'.op = OpIndexSingleFile)
       => /\ req'.status = "returned"
          /\ req'.callbacks = <<[id |-> OpIndexSingleFile, payload |-> NoPayload]>>
          /\ IF req'.file = req'.original
             THEN /\ req'.parsed = {req'.file}
                  /\ ~db'.txn /\ db'.sym = EmptyBag
                  /\ req'.unit => FileRows[req'.file] \subseteq BagToSet(symbol'[db'.root])
             ELSE /\ req'.parsed = {}
                  /\ ~db'.txn /\ db'.sym = EmptyBag
                  /\ UNCHANGED <<symbol_type, symbol>>]_vars

====
